---- MODULE Spec2Model ----
(***************************************************************************)
(* Model of src/App.js: the App component of the voice recorder.           *)
(*                                                                         *)
(* The component's useState cells are the variables that keep their source *)
(* names.  An async handler is a call in flight (an element of `threads`)  *)
(* that resumes once per `await`; the audio device answers each awaited    *)
(* call either by resolving or by rejecting.  State updates made in one    *)
(* synchronous stretch of a handler are one step (one render).  A passive  *)
(* effect (useEffect) of a render runs as a later step of its own, but     *)
(* always before the next render that a handler causes; a live interval    *)
(* may fire in between.                                                    *)
(*                                                                         *)
(* The device (expo-av) is outside the repository.  Any awaited call may   *)
(* reject; a call resolves only on a handle in a state that admits it:     *)
(* only a capture that is recording or paused can be stopped, only a       *)
(* stopped capture can be loaded as a sound, only a loaded sound can be    *)
(* played.  Recording.createAsync throws when it is called while another   *)
(* capture is recording or paused; the device looks at this when the call  *)
(* is made, so two calls made before either has completed both pass.       *)
(***************************************************************************)
EXTENDS Integers, Sequences, FiniteSets, Bags, TLC

\* ---- bounds of the model ----
MaxCapture == 2      \* capture handles Audio.Recording.createAsync may hand out
MaxSound == 2        \* playback handles createNewLoadedSoundAsync may hand out
MaxTimer == 2        \* ticks counted
MaxInFlight == 2     \* handler calls awaiting the device at one time
MaxClips == 2        \* saved recordings
MaxNameLen == 1      \* characters typed into the name field

NoHandle == 0        \* recording: null / undefined
NoSound == 0         \* sound: null
NoInterval == 0      \* interval / intervalId: undefined / null
NotPlaying == -1     \* playing: -1

Chars == {" ", "M"}
RECURSIVE SeqsUpTo(_)
SeqsUpTo(n) ==
    IF n = 0 THEN {<<>>}
    ELSE LET shorter == SeqsUpTo(n - 1)
         IN  shorter \cup {Append(s, c) : s \in {x \in shorter : Len(x) = n - 1}, c \in Chars}
Names == SeqsUpTo(MaxNameLen)

Captures == 1..MaxCapture
Sounds == 1..MaxSound

VARIABLES
    recordings,       \* useState([]): saved clips, in display order
    recording,        \* useState(null): capture handle the record button tests
    recordingName,    \* useState(''): text of the name field
    playing,          \* useState(-1): index of the clip shown as playing
    sound,            \* useState(null): playback handle tracked for cleanup
    isDialogVisible,  \* useState(false)
    isRecording,      \* useState(false)
    timer,            \* useState(0)
    isPaused,         \* useState(false)
    intervalId,       \* useState(null)
    interval,         \* `interval` of the timer effect that ran last (its cleanup's closure)
    timerDeps,        \* [isRecording, isPaused] the timer effect ran with last
    soundDep,         \* [sound] the cleanup effect ran with last
    intervals,        \* device: intervals set and not cleared
    intervalSeq,      \* device: number of setInterval calls so far
    recStatus,        \* device: state of each capture handle
    sndStatus,        \* device: state of each playback handle
    sndUnloads,       \* device: unloadAsync calls received by each playback handle
    onStatus,         \* device: playback handles with a status callback registered
    sndClip,          \* device: the clip index each playback handle was asked for
    didJustFinish,    \* device: playback handles that reported didJustFinish
    threads           \* bag of handler calls suspended at an await

reactVars == <<recordings, recording, recordingName, playing, sound, isDialogVisible,
               isRecording, timer, isPaused, intervalId>>
effectVars == <<interval, timerDeps, soundDep>>
timerDevice == <<intervals, intervalSeq>>
soundDevice == <<sndStatus, sndUnloads, onStatus, sndClip, didJustFinish>>
vars == <<recordings, recording, recordingName, playing, sound, isDialogVisible,
          isRecording, timer, isPaused, intervalId, interval, timerDeps, soundDep,
          intervals, intervalSeq, recStatus, sndStatus, sndUnloads, onStatus, sndClip,
          didJustFinish, threads>>

\* ---- derived state ----
RecordingState ==
    IF ~isRecording THEN "Idle" ELSE IF isPaused THEN "Paused" ELSE "Recording"

TimerEffectPending == <<isRecording, isPaused>> # timerDeps
SoundEffectPending == sound # soundDep
\* React runs the passive effects of a render before it renders again.
EffectsFlushed == ~TimerEffectPending /\ ~SoundEffectPending

Call(op, pc, h, idx, snd) ==
    [op |-> op, pc |-> pc, h |-> h, idx |-> idx, snd |-> snd,
     st0 |-> IF h = NoHandle THEN "none" ELSE recStatus[h]]
InFlight == BagToSet(threads)
Spawn(t) == threads' = threads (+) SetToBag({t})
Return(t) == threads' = threads (-) SetToBag({t})
Continue(t, u) == threads' = (threads (-) SetToBag({t})) (+) SetToBag({u})
CanSpawn == BagCardinality(threads) < MaxInFlight

Init ==
    /\ recordings = <<>>
    /\ recording = NoHandle
    /\ recordingName = <<>>
    /\ playing = NotPlaying
    /\ sound = NoSound
    /\ isDialogVisible = FALSE
    /\ isRecording = FALSE
    /\ timer = 0
    /\ isPaused = FALSE
    /\ intervalId = NoInterval
    /\ interval = NoInterval
    /\ timerDeps = <<FALSE, FALSE>>
    /\ soundDep = NoSound
    /\ intervals = {}
    /\ intervalSeq = 0
    /\ recStatus = [h \in Captures |-> "none"]
    /\ sndStatus = [s \in Sounds |-> "none"]
    /\ sndUnloads = [s \in Sounds |-> 0]
    /\ onStatus = {}
    /\ sndClip = [s \in Sounds |-> NotPlaying]
    /\ didJustFinish = {}
    /\ threads = EmptyBag

\* ---- the timer effect, App.js 23-34 ----
\* The intervals left live by one run of the effect: the cleanup of the run
\* before clears that run's `interval`; the body sets a new interval while
\* recording and not paused, and otherwise clears the one in intervalId.
TimerEffectLive_NoClear(live, prev, iid, rec, paused, new) ==
    IF rec /\ ~paused
    THEN live \cup {new}
    ELSE live

TimerEffectLive(live, prev, iid, rec, paused, new) ==
    IF rec /\ ~paused
    THEN (live \ {prev}) \cup {new}
    ELSE (live \ {prev}) \ {iid}

RunTimerEffect ==
    /\ TimerEffectPending
    /\ LET ticking == isRecording /\ ~isPaused
           new == intervalSeq + 1
       IN  /\ intervals' = TimerEffectLive(intervals, interval, intervalId,
                                           isRecording, isPaused, new)
           /\ intervalSeq' = IF ticking THEN new ELSE intervalSeq
           /\ interval' = IF ticking THEN new ELSE NoInterval
           /\ intervalId' = IF ticking THEN new ELSE NoInterval
    /\ timerDeps' = <<isRecording, isPaused>>
    /\ UNCHANGED <<recordings, recording, recordingName, playing, sound,
                   isDialogVisible, isRecording, timer, isPaused, soundDep,
                   recStatus, soundDevice, threads>>

\* The interval callback, App.js 26-28: setTimer(prevTimer => prevTimer + 1).
Tick ==
    /\ intervals # {}
    /\ timer < MaxTimer
    /\ \E i \in intervals : timer' = timer + 1
    /\ UNCHANGED <<recordings, recording, recordingName, playing, sound,
                   isDialogVisible, isRecording, isPaused, intervalId,
                   effectVars, timerDevice, recStatus, soundDevice, threads>>

\* ---- the record button, App.js 165 ----
RecordButtonHandler ==
    IF recording # NoHandle
    THEN (IF isPaused THEN "togglePause" ELSE "stopRecording")
    ELSE "startRecording"

\* The handler runs up to its first await and is suspended there.
FirstAwait(handler) ==
    CASE handler = "startRecording" -> "requestPermissionsAsync"
      [] handler = "stopRecording" -> "stopAndUnloadAsync"
      [] handler = "togglePause" -> IF isPaused THEN "startAsync" ELSE "pauseAsync"

PressRecord ==
    /\ CanSpawn
    /\ Spawn(Call(RecordButtonHandler, FirstAwait(RecordButtonHandler),
                  recording, NotPlaying, NoSound))
    /\ UNCHANGED <<reactVars, effectVars, timerDevice, recStatus, soundDevice>>

\* ---- startRecording, App.js 36-52 ----
FreeCaptures == {h \in Captures : recStatus[h] = "none"}
Outstanding == {h \in Captures : recStatus[h] \in {"recording", "paused"}}
NewCapture == CHOOSE h \in FreeCaptures : \A g \in FreeCaptures : h <= g

startRecording(t) ==
    /\ t.op = "startRecording"
    /\ \/ /\ t.pc = "requestPermissionsAsync"
          /\ Continue(t, [t EXCEPT !.pc = "setAudioModeAsync"])
          /\ UNCHANGED <<reactVars, effectVars, timerDevice, recStatus, soundDevice>>
       \/ /\ t.pc = "setAudioModeAsync"
          /\ IF Outstanding = {}
             THEN Continue(t, [t EXCEPT !.pc = "createAsync"])
             ELSE Return(t)     \* createAsync throws at once; caught, App.js 49
          /\ UNCHANGED <<reactVars, effectVars, timerDevice, recStatus, soundDevice>>
       \/ /\ t.pc = "createAsync"
          /\ FreeCaptures # {}
          /\ EffectsFlushed
          /\ recStatus' = [recStatus EXCEPT ![NewCapture] = "recording"]
          /\ recording' = NewCapture
          /\ isRecording' = TRUE
          /\ Return(t)
          /\ UNCHANGED <<recordings, recordingName, playing, sound, isDialogVisible,
                         timer, isPaused, intervalId, effectVars, timerDevice,
                         soundDevice>>

\* ---- stopRecording, App.js 54-62 ----
stopRecording(t) ==
    /\ t.op = "stopRecording"
    /\ \/ /\ t.pc = "stopAndUnloadAsync"
          /\ t.h \in Outstanding
          /\ recStatus' = [recStatus EXCEPT ![t.h] = "done"]
          /\ Continue(t, [t EXCEPT !.pc = "setAudioModeAsync"])
          /\ UNCHANGED <<reactVars, effectVars, timerDevice, soundDevice>>
       \/ /\ t.pc = "setAudioModeAsync"
          /\ EffectsFlushed
          /\ isRecording' = FALSE
          /\ isDialogVisible' = TRUE
          /\ timer' = 0
          /\ Return(t)
          /\ UNCHANGED <<recordings, recording, recordingName, playing, sound,
                         isPaused, intervalId, effectVars, timerDevice, recStatus,
                         soundDevice>>

\* ---- togglePause, App.js 81-88 ----
togglePause(t) ==
    /\ t.op = "togglePause"
    /\ recStatus[t.h] = (IF t.pc = "startAsync" THEN "paused" ELSE "recording")
    /\ EffectsFlushed
    /\ recStatus' = [recStatus EXCEPT
                       ![t.h] = IF t.pc = "startAsync" THEN "recording" ELSE "paused"]
    /\ isPaused' = (t.pc # "startAsync")
    /\ Return(t)
    /\ UNCHANGED <<recordings, recording, recordingName, playing, sound,
                   isDialogVisible, isRecording, timer, intervalId, effectVars,
                   timerDevice, soundDevice>>

\* An awaited device call rejects.  startRecording catches and logs it; in the
\* other handlers the rejection is unhandled.  No state update follows.
Rejects(t) ==
    /\ Return(t)
    /\ UNCHANGED <<reactVars, effectVars, timerDevice, recStatus, soundDevice>>

\* ---- the save dialog, App.js 64-79 and 103-120 ----
\* String.prototype.trim on the characters the model types.
RECURSIVE TrimStart(_)
TrimStart(s) ==
    IF s # <<>> /\ Head(s) = " " THEN TrimStart(Tail(s)) ELSE s
RECURSIVE TrimEnd(_)
TrimEnd(s) ==
    IF s # <<>> /\ s[Len(s)] = " " THEN TrimEnd(SubSeq(s, 1, Len(s) - 1)) ELSE s
Trim_Identity(s) == s

Trim(s) == TrimEnd(TrimStart(s))

\* onChangeText of the name field.
TypeName ==
    /\ isDialogVisible
    /\ EffectsFlushed
    /\ \E text \in Names \ {recordingName} : recordingName' = text
    /\ UNCHANGED <<recordings, recording, playing, sound, isDialogVisible,
                   isRecording, timer, isPaused, intervalId, effectVars,
                   timerDevice, recStatus, soundDevice, threads>>

\* setRecordings([...recordings, {name, recording, timestamp}]), App.js 67-74.
\* The timestamp is display text that nothing reads back; it is left out.
WithNewClip_Prepended(clips, name, handle) ==
    <<[name |-> name, recording |-> handle]>> \o clips

WithNewClip(clips, name, handle) ==
    Append(clips, [name |-> name, recording |-> handle])

\* Save: with a name that is not blank after trim() it appends the clip, clears
\* the handle and the name and closes the dialog; with a blank name it does
\* nothing at all.
handleSaveRecording ==
    /\ isDialogVisible
    /\ EffectsFlushed
    /\ IF Trim(recordingName) # <<>>
       THEN /\ Len(recordings) < MaxClips
            /\ recordings' = WithNewClip(recordings, recordingName, recording)
            /\ recording' = NoHandle
            /\ isDialogVisible' = FALSE
            /\ recordingName' = <<>>
            /\ UNCHANGED <<playing, sound, isRecording, timer, isPaused,
                           intervalId, effectVars, timerDevice, recStatus,
                           soundDevice, threads>>
       ELSE UNCHANGED vars

\* Cancel, App.js 115.
CancelDialog ==
    /\ isDialogVisible
    /\ EffectsFlushed
    /\ isDialogVisible' = FALSE
    /\ UNCHANGED <<recordings, recording, recordingName, playing, sound,
                   isRecording, timer, isPaused, intervalId, effectVars,
                   timerDevice, recStatus, soundDevice, threads>>

\* ---- the list of clips, App.js 123-161 ----
\* Clip index of the source (from 0) to position in the sequence (from 1).
ClipIndexes == 0..(Len(recordings) - 1)
Clip(index) == recordings[index + 1]
RemoveAt_Last(seq, index) == SubSeq(seq, 1, Len(seq) - 1)

\* recordings.filter((rec, i) => i !== index), App.js 156.
RemoveAt(seq, index) ==
    [k \in 1..(Len(seq) - 1) |-> IF k < index + 1 THEN seq[k] ELSE seq[k + 1]]

\* The trash icon of the clip at `index`, App.js 155-157.
DeleteClip(index) ==
    /\ EffectsFlushed
    /\ recordings' = RemoveAt(recordings, index)
    /\ UNCHANGED <<recording, recordingName, playing, sound, isDialogVisible,
                   isRecording, timer, isPaused, intervalId, effectVars,
                   timerDevice, recStatus, soundDevice, threads>>

PressDelete == \E index \in ClipIndexes : DeleteClip(index)

\* Playback handles are numbered in the order createNewLoadedSoundAsync is
\* called; the handle exists once the call resolves.
FreeSounds == {s \in Sounds : sndClip[s] = NotPlaying}
NewSound == CHOOSE s \in FreeSounds : \A r \in FreeSounds : s <= r

\* The clip row, App.js 126-127: the handler is suspended in
\* createNewLoadedSoundAsync of the clip's capture handle.  On a clip saved
\* without a handle the handler throws before it calls anything.
PressPlay ==
    /\ CanSpawn
    /\ FreeSounds # {}
    /\ \E index \in ClipIndexes :
         /\ Clip(index).recording # NoHandle
         /\ Spawn(Call("playClip", "createNewLoadedSoundAsync",
                       Clip(index).recording, index, NewSound))
         /\ sndClip' = [sndClip EXCEPT ![NewSound] = index]
    /\ UNCHANGED <<reactVars, effectVars, timerDevice, recStatus, sndStatus,
                   sndUnloads, onStatus, didJustFinish>>

\* sound.unloadAsync()
Unload(status, s) == [status EXCEPT ![s] = "unloaded"]
CountUnload(unloads, s) == [unloads EXCEPT ![s] = @ + 1]

\* App.js 127-145.
playClip(t) ==
    /\ t.op = "playClip"
    /\ \/ /\ t.pc = "createNewLoadedSoundAsync"
          /\ recStatus[t.h] = "done"
          /\ EffectsFlushed
          /\ sndStatus' = [sndStatus EXCEPT ![t.snd] = "loaded"]
          /\ sound' = t.snd
          /\ playing' = t.idx
          /\ Continue(t, [t EXCEPT !.pc = "playAsync"])
          /\ UNCHANGED <<recordings, recording, recordingName, isDialogVisible,
                         isRecording, timer, isPaused, intervalId, effectVars,
                         timerDevice, recStatus, sndUnloads, onStatus, sndClip,
                         didJustFinish>>
       \/ /\ t.pc = "playAsync"
          /\ sndStatus[t.snd] = "loaded"
          /\ onStatus' = onStatus \cup {t.snd}
          /\ Return(t)
          /\ UNCHANGED <<reactVars, effectVars, timerDevice, recStatus, sndStatus,
                         sndUnloads, sndClip, didJustFinish>>

\* The status callback with didJustFinish, App.js 139-144.  The device calls it
\* for a handle that is still loaded, whether or not an effect is pending.
PlaybackFinished ==
    /\ \E s \in onStatus :
         /\ sndStatus[s] = "loaded"
         /\ playing' = NotPlaying
         /\ sndStatus' = Unload(sndStatus, s)
         /\ sndUnloads' = CountUnload(sndUnloads, s)
         /\ didJustFinish' = didJustFinish \cup {s}
    /\ UNCHANGED <<recordings, recording, recordingName, sound, isDialogVisible,
                   isRecording, timer, isPaused, intervalId, effectVars,
                   timerDevice, recStatus, onStatus, sndClip, threads>>

\* ---- the sound effect, App.js 90-96 ----
\* The cleanup of the run before unloads the sound that run was given.
RunSoundEffect ==
    /\ SoundEffectPending
    /\ IF soundDep # NoSound
       THEN /\ sndStatus' = Unload(sndStatus, soundDep)
            /\ sndUnloads' = CountUnload(sndUnloads, soundDep)
       ELSE UNCHANGED <<sndStatus, sndUnloads>>
    /\ soundDep' = sound
    /\ UNCHANGED <<reactVars, interval, timerDeps, timerDevice, recStatus,
                   onStatus, sndClip, didJustFinish, threads>>

\* ---- the component ----
\* A suspended handler call resumes when its awaited device call resolves.
Resolves(t) ==
    CASE t.op = "startRecording" -> startRecording(t)
      [] t.op = "stopRecording" -> stopRecording(t)
      [] t.op = "togglePause" -> togglePause(t)
      [] t.op = "playClip" -> playClip(t)

Next ==
    \/ PressRecord
    \/ \E t \in InFlight : Resolves(t)
    \/ \E t \in InFlight : Rejects(t)
    \/ RunTimerEffect
    \/ Tick
    \/ TypeName
    \/ handleSaveRecording
    \/ CancelDialog
    \/ PressPlay
    \/ PressDelete
    \/ PlaybackFinished
    \/ RunSoundEffect

Spec == Init /\ [][Next]_vars

\* ---- the claims ----
Loaded == {s \in Sounds : sndStatus[s] = "loaded"}
PlayCalls == {t \in InFlight : t.op = "playClip"}

\* C1: the capture handle in `recording` is present exactly when isRecording
\* holds (Recording or Paused); it is absent in Idle.
C1_HandleIffRecording ==
    (recording # NoHandle) <=> isRecording

\* C2: once the pending clip is committed (Save) or discarded (Cancel), the
\* session is Idle with no pending handle and the record button starts a new
\* recording.
C2_CommitOrDiscardReenablesStart ==
    [][(handleSaveRecording \/ CancelDialog)
          => (recording' = NoHandle /\ ~isRecording'
              /\ RecordButtonHandler' = "startRecording")]_vars

\* C2, second half (no stuck state), as the code has it: with a stopped handle
\* left in `recording`, the dialog closed and no startRecording in flight, every
\* press dispatches stopRecording on the stopped handle, and the session stays
\* as it is for good.
C2_StuckAfterCancel ==
    /\ recording # NoHandle
    /\ recStatus[recording] = "done"
    /\ ~isDialogVisible
    /\ \A t \in InFlight :
          /\ t.op \in {"stopRecording", "playClip"}
          /\ t.op = "stopRecording"
                => (t.pc = "stopAndUnloadAsync" /\ recStatus[t.h] = "done")
C2_StuckIsPermanent ==
    [][C2_StuckAfterCancel => C2_StuckAfterCancel']_vars

\* C3: whenever the state is Recording, the user's record button offers the
\* pause toggle (which leads to Paused).
C3_PauseAvailableWhileRecording ==
    RecordingState = "Recording" => RecordButtonHandler = "togglePause"

\* C4: after stopRecording, once the timer effect has run, the session is Idle
\* (isRecording and isPaused false) with elapsed time 0 and no ticker scheduled.
C4_StopEndsIdleAtZero ==
    (~isRecording /\ ~TimerEffectPending)
        => (~isPaused /\ timer = 0 /\ intervals = {})

\* C5: the elapsed time only ever increases by exactly 1, and only in a state
\* where recordingState is Recording.
C5_TickOnlyWhileRecording ==
    [][timer' > timer
          => (timer' = timer + 1 /\ RecordingState = "Recording")]_vars

\* C6: at most one ticker interval is live in every reachable state.
C6_AtMostOneInterval ==
    Cardinality(intervals) <= 1

\* C6 witness: a second interval has been scheduled after the first one was
\* cancelled, and it is the only one live.
C6_Witness ==
    intervalSeq >= 2 /\ Cardinality(intervals) = 1

\* C7: whenever the session goes from Idle to Recording, the elapsed time is 0.
C7_StartAtZero ==
    [][(~isRecording /\ isRecording') => timer' = 0]_vars

\* C8: when startRecording or stopRecording fails at a device call, the session
\* state and the capture handle are as they were when the operation was issued.
C8_FailureLeavesStateUnchanged ==
    [][\A t \in InFlight :
          (t.op \in {"startRecording", "stopRecording"} /\ Rejects(t))
              => /\ UNCHANGED reactVars
                 /\ t.h # NoHandle => recStatus'[t.h] = t.st0]_vars

\* C9: after playClip(i) then playClip(j), i # j, with both handles created and
\* no playback ended, exactly the handle of the second press is alive and the
\* playing index is j.
C9_SecondPlayWins ==
    \A a, b \in Sounds :
        (/\ b = a + 1
         /\ sndStatus[a] # "none" /\ sndStatus[b] # "none"
         /\ sndClip[a] # sndClip[b]
         /\ \A c \in Sounds : c > b => sndClip[c] = NotPlaying
         /\ PlayCalls = {}
         /\ ~SoundEffectPending
         /\ didJustFinish = {})
            => (Loaded = {b} /\ playing = sndClip[b])

\* C10: in no reachable state are two playback handles alive at the same time.
C10_AtMostOnePlaybackHandle ==
    Cardinality(Loaded) <= 1

\* C11: a completion callback clears the playing index only when the handle
\* that completed is the playback handle currently tracked in `sound`.
C11_StaleCompletionIgnored ==
    [][\A s \in Sounds :
          (s \in didJustFinish' \ didJustFinish /\ playing' # playing)
              => s = sound]_vars

\* C12: a press on the clip that is playing stops it: the playing index becomes
\* none, its handle is released and no new playback handle is asked for.
C12_PressPlayingClipStops ==
    [][(PressPlay /\ playing # NotPlaying /\ Loaded # {}
           /\ sndClip'[NewSound] = playing)
          => (playing' = NotPlaying /\ Loaded' = {} /\ threads' = threads)]_vars

\* C13: deleting the clip that is playing stops and releases its playback
\* handle and leaves the playing index at none.
C13_DeletePlayingClipStops ==
    [][\A index \in ClipIndexes :
          (DeleteClip(index) /\ playing = index /\ Loaded # {})
              => (playing' = NotPlaying /\ Loaded' = {})]_vars

AllSpaces(name) == \A k \in 1..Len(name) : name[k] = " "

\* C14: Save with a name that is empty or only spaces changes nothing: clips,
\* the pending capture handle, the dialog and the typed name stay as they are.
C14_BlankNameSaveIsNoOp ==
    [][(handleSaveRecording /\ AllSpaces(recordingName))
          => UNCHANGED <<recordings, recording, isDialogVisible, recordingName,
                         isRecording, timer>>]_vars

\* C14 witness: the dialog is open on a stopped capture with a name of spaces
\* typed in, where Save is the blank case.
C14_Witness ==
    /\ isDialogVisible
    /\ EffectsFlushed
    /\ recordingName # <<>>
    /\ AllSpaces(recordingName)
    /\ recording # NoHandle

\* C15: Save with a name that is not blank, while a stopped capture is pending,
\* adds exactly one clip at the end with the typed name and that capture, keeps
\* the clips saved before in place, clears the pending capture and closes the
\* dialog; the recording state and the timer are not touched by it.
C15_SaveAppendsPendingCapture ==
    [][(/\ handleSaveRecording
        /\ ~AllSpaces(recordingName)
        /\ recording # NoHandle
        /\ recStatus[recording] = "done")
          => (/\ Len(recordings') = Len(recordings) + 1
              /\ \A k \in 1..Len(recordings) : recordings'[k] = recordings[k]
              /\ recordings'[Len(recordings')] =
                     [name |-> recordingName, recording |-> recording]
              /\ recording' = NoHandle
              /\ ~isDialogVisible'
              /\ UNCHANGED <<isRecording, isPaused, timer>>)]_vars

\* C15 witness: start, ticks, stop, Save as "M" has run: one clip named "M"
\* holding the stopped capture, nothing pending, Idle, timer at 0.
C15_Witness ==
    /\ Len(recordings) = 1
    /\ recordings[1].name = <<"M">>
    /\ recStatus[recordings[1].recording] = "done"
    /\ recording = NoHandle
    /\ ~isDialogVisible
    /\ RecordingState = "Idle"
    /\ timer = 0
    /\ threads = EmptyBag

\* C16: Cancel in the save dialog leaves the clips as they are and drops the
\* pending capture: after it no capture handle is held.
C16_CancelDropsPendingCapture ==
    [][CancelDialog => (recordings' = recordings /\ recording' = NoHandle)]_vars

\* C17: at most one capture handle is created and not yet stopped, whatever the
\* order of presses and device answers, a second press of the record button
\* before the first startRecording has returned included.
C17_AtMostOneOutstandingCapture == Cardinality(Outstanding) <= 1

ClipsBefore(clips, index) == SubSeq(clips, 1, index)
ClipsAfter(clips, index) == SubSeq(clips, index + 2, Len(clips))

\* C18: the clips change only by Save, which adds one clip at the end, and by
\* the trash icon, which removes exactly the clip at its index and keeps the
\* others in their order; every other step leaves the clips unchanged.
C18_ClipsChangeOnlyBySaveAndDelete ==
    [][/\ recordings' # recordings => (handleSaveRecording \/ PressDelete)
       /\ handleSaveRecording =>
             \/ recordings' = recordings
             \/ /\ Len(recordings') = Len(recordings) + 1
                /\ SubSeq(recordings', 1, Len(recordings)) = recordings
       /\ \A index \in ClipIndexes :
             DeleteClip(index) =>
                /\ Len(recordings') = Len(recordings) - 1
                /\ ClipsBefore(recordings', index) = ClipsBefore(recordings, index)
                /\ SubSeq(recordings', index + 1, Len(recordings'))
                      = ClipsAfter(recordings, index)]_vars

\* C18 witness: two different clips are saved and the trash icons can be
\* pressed, so that removing the wrong one would show.
C18_Witness ==
    /\ Len(recordings) = 2
    /\ recordings[1] # recordings[2]
    /\ EffectsFlushed
    /\ ENABLED PressDelete

\* C19: every playback handle is released exactly once: no step unloads a
\* handle that an earlier step has unloaded already.
C19_PlaybackHandleReleasedOnce == \A s \in Sounds : sndUnloads[s] <= 1

\* C20: while the save dialog is visible the recording state is Idle and the
\* held capture handle is one that stopRecording has stopped; and every saved
\* clip holds a stopped capture, never one that is recording or paused.
C20_DialogAndClipsHoldStoppedCaptures ==
    /\ isDialogVisible =>
          /\ RecordingState = "Idle"
          /\ recording # NoHandle
          /\ recStatus[recording] = "done"
    /\ \A k \in 1..Len(recordings) :
          /\ recordings[k].recording # NoHandle
          /\ recStatus[recordings[k].recording] = "done"

====
